---- MODULE Spec2Model ----
(***************************************************************************)
(* Place execution of object_manipulator (place_executor.cpp).             *)
(*                                                                         *)
(* One PlaceExecutor instance (direct or reactive approach) serves a       *)
(* sequence of place() calls.  A call is a synchronous sequence of         *)
(* blocking calls into external services; every action below is one such  *)
(* call together with the code that follows it up to the next call.  The   *)
(* replies of the services are the nondeterministic inputs.                *)
(***************************************************************************)
EXTENDS Integers, Sequences, FiniteSets

\* ------------------------------------------------------------------ bounds
\* distances (actual and minimum) range over 0..MaxDist
MaxDist == 1
\* a trajectory returned by the interpolated IK service has 0..MaxTrajLen points
MaxTrajLen == 1
\* a goal carries 0..MaxOrientationConstraints orientation constraints
MaxOrientationConstraints == 2
\* longest list of a constraint set handed to constraintsUnderstandable alone
MaxListLen == 2
\* a caller adds at most MaxAdditional collision operations and as many link
\* paddings to a goal
MaxAdditional == 2

\* ------------------------------------------------------- values and helpers
Distances == 0..MaxDist

\* A joint configuration is an id; the i-th waypoint of a trajectory is i.
Trajectory(n) == [i \in 1..n |-> i]
Trajectories == {Trajectory(n) : n \in 0..MaxTrajLen}

\* what reading front()/back() of an empty vector can give: the process
\* dies, or the read yields an indeterminate joint configuration
Crash == -1
Indeterminate == 0
NoConfig == -2

\* arm_navigation_msgs::ArmNavigationErrorCodes, as far as the executor
\* tells them apart: two named codes and "every other code"
ErrorCodes == {"SUCCESS", "COLLISION_CONSTRAINTS_VIOLATED",
               "JOINT_LIMITS_VIOLATED", "NO_IK_SOLUTION"}
NoError == "none"

\* PlaceLocationResult: result code plus the flag given to Result(code, flag)
Result(code, flag) == [result_code |-> code, locationSpecific |-> flag]
NoResult == [result_code |-> "NONE", locationSpecific |-> FALSE]

\* std::vector::front() / back()
Front(traj) == IF traj # <<>> THEN {traj[1]} ELSE {Crash, Indeterminate}
Back(traj) == IF traj # <<>> THEN {traj[Len(traj)]} ELSE {Crash, Indeterminate}

\* arm_navigation_msgs::Constraints, by the sizes of its four lists (of the
\* position, joint and visibility lists the code reads only empty())
PathConstraints ==
  [position : 0..1, orientation : 0..MaxOrientationConstraints,
   joint : 0..1, visibility : 0..1]

\* a predicate that accepts any number of orientation constraints
constraintsUnderstandable_AnyOrientation(c) ==
  c.position = 0 /\ c.joint = 0 /\ c.visibility = 0

constraintsUnderstandable(c) ==
  IF c.position = 0 /\ c.orientation = 0 /\ c.joint = 0 /\ c.visibility = 0
  THEN TRUE
  ELSE IF c.orientation = 1 /\ c.position = 0 /\ c.joint = 0 /\ c.visibility = 0
       THEN TRUE
       ELSE FALSE

\* a place() without the test for an empty orientation list
UseConstraints_Understood(c) == constraintsUnderstandable(c)

\* place(), lines 352-364
UseConstraints(c) ==
  LET understood == IF ~constraintsUnderstandable(c) THEN FALSE ELSE TRUE
  IN  IF c.orientation = 0 THEN FALSE ELSE understood

\* a classification that attributes a non-empty trajectory to the place pose
PlaceSearchFailure_Swapped(traj, code) ==
  IF traj # <<>>
  THEN IF code = "COLLISION_CONSTRAINTS_VIOLATED"
       THEN Result("PLACE_IN_COLLISION", TRUE)
       ELSE IF code = "JOINT_LIMITS_VIOLATED"
            THEN Result("PLACE_OUT_OF_REACH", TRUE)
            ELSE Result("PLACE_UNFEASIBLE", TRUE)
  ELSE IF code = "COLLISION_CONSTRAINTS_VIOLATED"
       THEN Result("PREPLACE_IN_COLLISION", TRUE)
       ELSE IF code = "JOINT_LIMITS_VIOLATED"
            THEN Result("PREPLACE_OUT_OF_REACH", TRUE)
            ELSE Result("PREPLACE_UNFEASIBLE", TRUE)

\* prepareInterpolatedTrajectories, lines 231-244
PlaceSearchFailure(traj, code) ==
  IF traj = <<>>
  THEN IF code = "COLLISION_CONSTRAINTS_VIOLATED"
       THEN Result("PLACE_IN_COLLISION", TRUE)
       ELSE IF code = "JOINT_LIMITS_VIOLATED"
            THEN Result("PLACE_OUT_OF_REACH", TRUE)
            ELSE Result("PLACE_UNFEASIBLE", TRUE)
  ELSE IF code = "COLLISION_CONSTRAINTS_VIOLATED"
       THEN Result("PREPLACE_IN_COLLISION", TRUE)
       ELSE IF code = "JOINT_LIMITS_VIOLATED"
            THEN Result("PREPLACE_OUT_OF_REACH", TRUE)
            ELSE Result("PREPLACE_UNFEASIBLE", TRUE)

\* prepareInterpolatedTrajectories, lines 296-309
RetreatSearchFailure(traj, code) ==
  IF traj = <<>>
  THEN IF code = "COLLISION_CONSTRAINTS_VIOLATED"
       THEN Result("PLACE_IN_COLLISION", TRUE)
       ELSE IF code = "JOINT_LIMITS_VIOLATED"
            THEN Result("PLACE_OUT_OF_REACH", TRUE)
            ELSE Result("PLACE_UNFEASIBLE", TRUE)
  ELSE IF code = "COLLISION_CONSTRAINTS_VIOLATED"
       THEN Result("RETREAT_IN_COLLISION", TRUE)
       ELSE IF code = "JOINT_LIMITS_VIOLATED"
            THEN Result("RETREAT_OUT_OF_REACH", TRUE)
            ELSE Result("RETREAT_UNFEASIBLE", TRUE)

\* an exit that looks at the flag alone and lets a failed prepare through
PrepareExit_OnlyFlag(r, feasibility_only) == feasibility_only

\* an exit that forgets the feasibility-only flag
PrepareExit_NoFlag(r, feasibility_only) ==
  r.result_code # "SUCCESS"

\* place(), line 346: the exit taken right after prepare
PrepareExit(r, feasibility_only) ==
  r.result_code # "SUCCESS" \/ feasibility_only


\* the goals place() is called with
PlaceGoals ==
  [min_distance : Distances,
   min_retreat_distance : Distances,
   only_perform_feasibility_test : BOOLEAN,
   path_constraints : PathConstraints]

\* one record of the call history of the current attempt: the service called,
\* the joint configuration passed to it (NoConfig if none) and whether the
\* service reported what the caller asked for (for the interpolated IK
\* searches: whether the distance it reached is at least the goal's minimum)
Call(name, config, ok) == [call |-> name, config |-> config, ok |-> ok]

\* the reply to the most recent service call, for the services that reply
\* with more than a flag
Reply(err, dist, len) == [err |-> err, dist |-> dist, len |-> len]
NoReply == [err |-> NoError, dist |-> 0, len |-> 0]

\* ------------------------------------------- collision lists of retreat()
\* arm_navigation_msgs::CollisionOperation
CollisionOperation(object1, object2, operation) ==
  [object1 |-> object1, object2 |-> object2, operation |-> operation]

\* arm_navigation_msgs::LinkPadding
LinkPadding(link_name, padding) == [link_name |-> link_name, padding |-> padding]

\* handDescription().gripperCollisionName(arm_name)
GripperCollisionName == "gripper"

\* MechanismInterface::gripperPadding(arm_name, pad): one entry of the given
\* padding for each link of the gripper
GripperLinks == <<"gripper_palm", "gripper_finger">>
gripperPadding(pad) == [i \in 1..Len(GripperLinks) |-> LinkPadding(GripperLinks[i], pad)]

\* concat(a, b): the elements of a followed by those of b
concat(a, b) == a \o b

\* the sequences over S of length at most n
SeqsUpTo(S, n) == UNION {[1..k -> S] : k \in 0..n}

\* what a caller may put in additional_collision_operations and
\* additional_link_padding
AdditionalOperations ==
  {CollisionOperation(GripperCollisionName, "object", "ENABLE"),
   CollisionOperation("object", "table", "DISABLE")}
AdditionalPaddings == {LinkPadding("gripper_palm", 1), LinkPadding("forearm", 1)}

\* the fields of place_goal that retreat() reads at lines 109-134
PolicyGoals ==
  [collision_object_name : {"", "object"},
   collision_support_surface_name : {"", "table"},
   additional_collision_operations : SeqsUpTo(AdditionalOperations, MaxAdditional),
   additional_link_padding : SeqsUpTo(AdditionalPaddings, MaxAdditional)]

NoPolicyGoal ==
  [collision_object_name |-> "", collision_support_surface_name |-> "",
   additional_collision_operations |-> <<>>, additional_link_padding |-> <<>>]

\* a retreat() that puts the caller's operations before its own
RetreatCollisionOperations_CallerFirst(place_goal) ==
  LET coll == CollisionOperation(GripperCollisionName, "", "DISABLE")
      ord1 == IF place_goal.collision_object_name # ""
              THEN <<[coll EXCEPT !.object2 = place_goal.collision_object_name]>>
              ELSE <<>>
      ord2 == IF place_goal.collision_support_surface_name # ""
              THEN Append(ord1, [coll EXCEPT !.object2 =
                                   place_goal.collision_support_surface_name])
              ELSE ord1
  IN  concat(place_goal.additional_collision_operations, ord2)

\* retreat(), lines 109-126: ord.collision_operations
RetreatCollisionOperations(place_goal) ==
  LET coll == CollisionOperation(GripperCollisionName, "", "DISABLE")
      ord1 == IF place_goal.collision_object_name # ""
              THEN <<[coll EXCEPT !.object2 = place_goal.collision_object_name]>>
              ELSE <<>>
      ord2 == IF place_goal.collision_support_surface_name # ""
              THEN Append(ord1, [coll EXCEPT !.object2 =
                                   place_goal.collision_support_surface_name])
              ELSE ord1
  IN  concat(ord2, place_goal.additional_collision_operations)

\* retreat(), lines 132-134: link_padding
RetreatLinkPadding(place_goal) ==
  concat(gripperPadding(0), place_goal.additional_link_padding)

\* -------------------------------------------------------------------- state
VARIABLES
  executor,             \* "direct" (PlaceExecutor) or "reactive" (ReactivePlaceExecutor)
  pc,                   \* the call place() makes next, or how the attempt ended
  goal,                 \* place_goal of the current attempt
  place_trajectory_,    \* member: trajectory from pre-place to place
  retreat_trajectory_,  \* member: trajectory from place to retreat
  error_code,           \* local of prepareInterpolatedTrajectories (line 218)
  place_pose,           \* local of place() (line 369), set by getFK
  result,               \* local of place() (lines 345, 410, 425)
  ret,                  \* what place() returned
  exception,            \* the MechanismException that left place(), if any
  log,                  \* calls made in the current attempt, in order
  reply,                \* reply to the most recent call
  constraints,          \* argument of a call of constraintsUnderstandable
  understandable,       \* what that call returned: <<>> before it returns
  policy_goal,          \* the fields of place_goal that retreat() builds its lists from
  translate_request     \* the lists retreat() handed to translateGripper: <<>> before

vars == <<executor, pc, goal, place_trajectory_, retreat_trajectory_, error_code,
          place_pose, result, ret, exception, log, reply, constraints, understandable,
          policy_goal, translate_request>>

\* the goal fields and the lists of retreat() looked at on their own
policy == <<policy_goal, translate_request>>

\* the argument and the return value of constraintsUnderstandable called on
\* its own
query == <<constraints, understandable>>

NoGoal == [min_distance |-> 0, min_retreat_distance |-> 0,
           only_perform_feasibility_test |-> FALSE,
           path_constraints |-> [position |-> 0, orientation |-> 0,
                                 joint |-> 0, visibility |-> 0]]

Init ==
  /\ executor \in {"direct", "reactive"}
  /\ pc = "idle"
  /\ goal = NoGoal
  /\ place_trajectory_ = <<>>
  /\ retreat_trajectory_ = <<>>
  /\ error_code = NoError
  /\ place_pose = NoConfig
  /\ result = NoResult
  /\ ret = NoResult
  /\ exception = "none"
  /\ log = <<>>
  /\ reply = NoReply
  /\ constraints = NoGoal.path_constraints
  /\ understandable = <<>>
  /\ policy_goal = NoPolicyGoal
  /\ translate_request = <<>>

\* ------------------------------------------------- how an attempt can end
\* place() returns r; its locals go out of scope
Return(r) ==
  /\ pc' = "returned"
  /\ ret' = r
  /\ error_code' = NoError
  /\ place_pose' = NoConfig
  /\ exception' = exception

\* an executor that catches the error and reports it as a result
Throw_Caught(what) ==
  /\ pc' = "returned"
  /\ exception' = exception
  /\ ret' = Result("PLACE_FAILED", FALSE)
  /\ error_code' = NoError
  /\ place_pose' = NoConfig

\* a MechanismException leaves place()
Throw(what) ==
  /\ pc' = "threw"
  /\ exception' = what
  /\ ret' = ret
  /\ error_code' = NoError
  /\ place_pose' = NoConfig

\* a read through front()/back() of an empty vector killed the process
Die ==
  /\ pc' = "crashed"
  /\ UNCHANGED <<ret, exception, error_code, place_pose>>

\* place() goes on to its next call
Goto(next) ==
  /\ pc' = next
  /\ UNCHANGED <<ret, exception>>

\* ------------------------------------------------------------------ actions
\* the caller invokes place(place_goal, place_location) on the instance
Place ==
  /\ pc = "idle"
  /\ \E g \in PlaceGoals : goal' = g
  /\ pc' = "computeGripperPose"
  /\ UNCHANGED <<query, policy, executor, place_trajectory_, retreat_trajectory_, error_code, place_pose,
                 result, ret, exception, log, reply>>

\* the caller has taken the result (or caught the exception) of an attempt;
\* the instance keeps its members for the next call
Collect ==
  /\ pc \in {"returned", "threw"}
  /\ pc' = "idle"
  /\ goal' = NoGoal
  /\ log' = <<>>
  /\ reply' = NoReply
  /\ result' = NoResult
  /\ ret' = NoResult
  /\ exception' = "none"
  /\ UNCHANGED <<query, policy, executor, place_trajectory_, retreat_trajectory_, error_code, place_pose>>

\* prepareInterpolatedTrajectories, line 161: computeGripperPose (lines 47-91).
\* The marker update that follows (lines 165-176) writes marker_id_ only,
\* which no other statement of the executor reads; it is left out.
ComputeGripperPose ==
  /\ pc = "computeGripperPose"
  /\ \E tf \in {"ok", "no_transform", "transform_exception"} :
       /\ log' = Append(log, Call("computeGripperPose", NoConfig, tf = "ok"))
       /\ reply' = NoReply
       /\ IF tf = "ok"
          THEN Goto("getInterpolatedIK_place") /\ UNCHANGED <<error_code, place_pose>>
          ELSE Throw(tf)
  /\ UNCHANGED <<query, policy, executor, goal, place_trajectory_, retreat_trajectory_, result>>

\* place(), lines 345-366: prepareInterpolatedTrajectories returned r
AfterPrepare(r) ==
  /\ result' = r
  /\ IF PrepareExit(r, goal.only_perform_feasibility_test)
     THEN Return(r)
     ELSE /\ Goto(IF UseConstraints(goal.path_constraints)
                  THEN "getFK" ELSE "attemptMoveArmToGoal")
          /\ error_code' = NoError
          /\ place_pose' = place_pose

\* a search that leaves the member it was handed as it found it
SearchOutput_Kept(stored, found) == stored

\* getInterpolatedIK writes the trajectory it found into the member passed as
\* its output (lines 224 and 289), whatever the member held
SearchOutput(stored, found) == found

\* a retreat classification that reads the retreat search's own code
RetreatClassificationCode_Own(place_code, retreat_code) == retreat_code

\* the value of error_code when line 299 reads it: the second search's
\* return value is dropped at line 283, so it is still the first search's
RetreatClassificationCode(place_code, retreat_code) == place_code

\* prepareInterpolatedTrajectories, lines 218-245: backward search from place
\* to pre-place
GetInterpolatedIKPlace ==
  /\ pc = "getInterpolatedIK_place"
  /\ \E traj \in Trajectories, d \in Distances, e \in ErrorCodes :
       /\ place_trajectory_' = SearchOutput(place_trajectory_, traj)
       /\ log' = Append(log, Call("getInterpolatedIK_place", NoConfig, d >= goal.min_distance))
       /\ reply' = Reply(e, d, Len(traj))
       /\ IF d < goal.min_distance
          THEN AfterPrepare(PlaceSearchFailure(traj, e))
          ELSE /\ Goto("checkStateValidity")
               /\ error_code' = e
               /\ UNCHANGED <<place_pose, result>>
  /\ UNCHANGED <<query, policy, executor, goal, retreat_trajectory_>>

\* a preparation that goes on whatever the validity check said
ValidityExit_Ignored(valid) == FALSE

\* prepareInterpolatedTrajectories, line 249: whether the preparation returns
\* after the validity check of the first waypoint
ValidityExit(valid) == ~valid

\* prepareInterpolatedTrajectories, lines 249-255
CheckStateValidity ==
  /\ pc = "checkStateValidity"
  /\ \E c \in Front(place_trajectory_) :
       IF c = Crash
       THEN Die /\ UNCHANGED <<log, reply, result>>
       ELSE \E valid \in BOOLEAN :
              /\ log' = Append(log, Call("checkStateValidity", c, valid))
              /\ reply' = NoReply
              /\ IF ValidityExit(valid)
                 THEN AfterPrepare(Result("PREPLACE_UNFEASIBLE", TRUE))
                 ELSE /\ Goto("getInterpolatedIK_retreat")
                      /\ UNCHANGED <<error_code, place_pose, result>>
  /\ UNCHANGED <<query, policy, executor, goal, place_trajectory_, retreat_trajectory_>>

\* prepareInterpolatedTrajectories, lines 282-312: forward search from place
\* to retreat; the code this call returns is not stored
GetInterpolatedIKRetreat ==
  /\ pc = "getInterpolatedIK_retreat"
  /\ \E seed \in Back(place_trajectory_) :
       IF seed = Crash
       THEN Die /\ UNCHANGED <<log, reply, result, retreat_trajectory_>>
       ELSE \E traj \in Trajectories, d \in Distances, e \in ErrorCodes :
              /\ retreat_trajectory_' = SearchOutput(retreat_trajectory_, traj)
              /\ log' = Append(log, Call("getInterpolatedIK_retreat", seed,
                                         d >= goal.min_retreat_distance))
              /\ reply' = Reply(e, d, Len(traj))
              /\ IF d < goal.min_retreat_distance
                 THEN AfterPrepare(RetreatSearchFailure(
                        traj, RetreatClassificationCode(error_code, e)))
                 ELSE AfterPrepare(Result("SUCCESS", TRUE))
  /\ UNCHANGED <<query, policy, executor, goal, place_trajectory_>>

\* place(), lines 373-377
GetFK ==
  /\ pc = "getFK"
  /\ \E c \in Front(place_trajectory_) :
       IF c = Crash
       THEN Die /\ UNCHANGED <<log, reply>>
       ELSE \E ok \in BOOLEAN :
              /\ log' = Append(log, Call("getFK", c, ok))
              /\ reply' = NoReply
              /\ IF ~ok
                 THEN Throw("fk_failed")
                 ELSE /\ Goto("moveArmConstrained")
                      /\ place_pose' = c
                      /\ UNCHANGED error_code
  /\ UNCHANGED <<query, policy, executor, goal, place_trajectory_, retreat_trajectory_, result>>

\* a failed constrained move that is not followed by the unconstrained one
AfterMoveArmConstrained_NoFallback(ok) == "placeApproach"

\* a constrained move that is tried again when it fails
AfterMoveArmConstrained_Retry(ok) == IF ok THEN "placeApproach" ELSE "moveArmConstrained"

\* place(), lines 379-394: where place() goes after moveArmConstrained
AfterMoveArmConstrained(ok) == IF ok THEN "placeApproach" ELSE "attemptMoveArmToGoal"

\* place(), lines 379-390; the timeout argument reads front() once more
MoveArmConstrained ==
  /\ pc = "moveArmConstrained"
  /\ \E c \in Front(place_trajectory_) :
       IF c = Crash
       THEN Die /\ UNCHANGED <<log, reply>>
       ELSE \E ok \in BOOLEAN :
              /\ log' = Append(log, Call("moveArmConstrained", place_pose, ok))
              /\ reply' = NoReply
              /\ Goto(AfterMoveArmConstrained(ok))
              /\ UNCHANGED <<error_code, place_pose>>
  /\ UNCHANGED <<query, policy, executor, goal, place_trajectory_, retreat_trajectory_, result>>

\* place(), lines 394-404
AttemptMoveArmToGoal ==
  /\ pc = "attemptMoveArmToGoal"
  /\ \E c \in Front(place_trajectory_) :
       IF c = Crash
       THEN Die /\ UNCHANGED <<log, reply>>
       ELSE \E ok \in BOOLEAN :
              /\ log' = Append(log, Call("attemptMoveArmToGoal", c, ok))
              /\ reply' = NoReply
              /\ IF ~ok
                 THEN Return(Result("MOVE_ARM_FAILED", TRUE))
                 ELSE Goto("placeApproach") /\ UNCHANGED <<error_code, place_pose>>
  /\ UNCHANGED <<query, policy, executor, goal, place_trajectory_, retreat_trajectory_, result>>

\* PlaceExecutor::placeApproach, lines 325-326: what it returns once
\* attemptTrajectory has reported `executed`
DirectApproachResult(executed) == Result("SUCCESS", TRUE)

\* a reactive approach that takes a timed-out action for a finished one
ReactiveApproachResult_NoTimeout(outcome) ==
  IF outcome \notin {"timeout", "SUCCESS"}
  THEN Result("PLACE_FAILED", FALSE)
  ELSE Result("SUCCESS", TRUE)

\* ReactivePlaceExecutor::placeApproach, lines 468-481: what it returns for
\* the outcome of the reactive place action ("timeout", or the result value)
ReactiveApproachResult(outcome) ==
  IF outcome = "timeout"
  THEN Result("PLACE_FAILED", FALSE)
  ELSE IF outcome # "SUCCESS"
       THEN Result("PLACE_FAILED", FALSE)
       ELSE Result("SUCCESS", TRUE)

\* outcomes of sendGoal + waitForResult(60 s) + getResult
ReactiveOutcomes == {"timeout", "SUCCESS", "FAILED", "ERROR"}

\* place(), lines 410-416: placeApproach returned r
\* a place() that releases the object whatever the approach returned
AfterApproach_Unchecked(r) ==
  /\ result' = r
  /\ Goto("detachAndAddBackObjectsAttachedToGripper")
  /\ UNCHANGED <<error_code, place_pose>>

AfterApproach(r) ==
  /\ result' = r
  /\ IF r.result_code # "SUCCESS"
     THEN Return(Result("PLACE_FAILED", FALSE))
     ELSE Goto("detachAndAddBackObjectsAttachedToGripper")
          /\ UNCHANGED <<error_code, place_pose>>

\* PlaceExecutor::placeApproach, lines 321-327
AttemptTrajectory ==
  /\ pc = "placeApproach"
  /\ executor = "direct"
  /\ \E executed \in BOOLEAN :
       /\ log' = Append(log, Call("attemptTrajectory", NoConfig, executed))
       /\ reply' = NoReply
       /\ AfterApproach(DirectApproachResult(executed))
  /\ UNCHANGED <<query, policy, executor, goal, place_trajectory_, retreat_trajectory_>>

\* ReactivePlaceExecutor::placeApproach, lines 452-454
ReactiveComputeGripperPose ==
  /\ pc = "placeApproach"
  /\ executor = "reactive"
  /\ \E tf \in {"ok", "no_transform", "transform_exception"} :
       /\ log' = Append(log, Call("computeGripperPose", NoConfig, tf = "ok"))
       /\ reply' = NoReply
       /\ IF tf = "ok"
          THEN Goto("reactivePlace") /\ UNCHANGED <<error_code, place_pose>>
          ELSE Throw(tf)
  /\ UNCHANGED <<query, policy, executor, goal, place_trajectory_, retreat_trajectory_, result>>

\* ReactivePlaceExecutor::placeApproach, lines 457-482
ReactivePlace ==
  /\ pc = "reactivePlace"
  /\ \E outcome \in ReactiveOutcomes :
       /\ log' = Append(log, Call("reactivePlace", NoConfig, outcome = "SUCCESS"))
       /\ reply' = Reply(outcome, 0, 0)
       /\ AfterApproach(ReactiveApproachResult(outcome))
  /\ UNCHANGED <<query, policy, executor, goal, place_trajectory_, retreat_trajectory_>>

\* place(), line 418
DetachAndAddBackObjectsAttachedToGripper ==
  /\ pc = "detachAndAddBackObjectsAttachedToGripper"
  /\ log' = Append(log, Call("detachAndAddBackObjectsAttachedToGripper", NoConfig, TRUE))
  /\ reply' = NoReply
  /\ Goto("handPostureGraspAction")
  /\ UNCHANGED <<query, policy, executor, goal, place_trajectory_, retreat_trajectory_, result,
                 error_code, place_pose>>

\* place(), lines 421-422: release
HandPostureGraspAction ==
  /\ pc = "handPostureGraspAction"
  /\ log' = Append(log, Call("handPostureGraspAction", NoConfig, TRUE))
  /\ reply' = NoReply
  /\ Goto("translateGripper")
  /\ UNCHANGED <<query, policy, executor, goal, place_trajectory_, retreat_trajectory_, result,
                 error_code, place_pose>>

\* a retreat that also rejects a distance equal to the minimum
RetreatResult_Strict(actual_distance, min_retreat_distance) ==
  IF actual_distance <= min_retreat_distance
  THEN Result("RETREAT_FAILED", FALSE)
  ELSE Result("SUCCESS", TRUE)

\* a retreat that accepts whatever distance the gripper travelled
RetreatResult_NoMinimum(actual_distance, min_retreat_distance) ==
  Result("SUCCESS", TRUE)

\* PlaceExecutor::retreat, lines 146-153
RetreatResult(actual_distance, min_retreat_distance) ==
  IF actual_distance < min_retreat_distance
  THEN Result("RETREAT_FAILED", FALSE)
  ELSE Result("SUCCESS", TRUE)

\* place(), lines 425-430, with retreat(), lines 107-154
TranslateGripper ==
  /\ pc = "translateGripper"
  /\ \E d \in Distances :
       /\ log' = Append(log, Call("translateGripper", NoConfig, d >= goal.min_retreat_distance))
       /\ reply' = Reply(NoError, d, 0)
       /\ result' = RetreatResult(d, goal.min_retreat_distance)
       /\ IF result'.result_code # "SUCCESS"
          THEN Return(Result("RETREAT_FAILED", FALSE))
          ELSE Return(Result("SUCCESS", TRUE))
  /\ UNCHANGED <<query, policy, executor, goal, place_trajectory_, retreat_trajectory_>>

Next ==
  \/ Place
  \/ Collect
  \/ ComputeGripperPose
  \/ GetInterpolatedIKPlace
  \/ CheckStateValidity
  \/ GetInterpolatedIKRetreat
  \/ GetFK
  \/ MoveArmConstrained
  \/ AttemptMoveArmToGoal
  \/ AttemptTrajectory
  \/ ReactiveComputeGripperPose
  \/ ReactivePlace
  \/ DetachAndAddBackObjectsAttachedToGripper
  \/ HandPostureGraspAction
  \/ TranslateGripper

Spec == Init /\ [][Next]_vars

\* ------------------------------------- constraintsUnderstandable on its own
\* constraint sets by the sizes of their four lists
ConstraintSets ==
  [position : 0..MaxListLen, orientation : 0..MaxListLen,
   joint : 0..MaxListLen, visibility : 0..MaxListLen]

InitConstraints ==
  /\ executor = "direct"
  /\ pc = "idle"
  /\ goal = NoGoal
  /\ place_trajectory_ = <<>>
  /\ retreat_trajectory_ = <<>>
  /\ error_code = NoError
  /\ place_pose = NoConfig
  /\ result = NoResult
  /\ ret = NoResult
  /\ exception = "none"
  /\ log = <<>>
  /\ reply = NoReply
  /\ constraints \in ConstraintSets
  /\ understandable = <<>>
  /\ policy_goal = NoPolicyGoal
  /\ translate_request = <<>>

\* constraintsUnderstandable(constraints), lines 436-445
ConstraintsUnderstandable ==
  /\ understandable = <<>>
  /\ understandable' = <<constraintsUnderstandable(constraints)>>
  /\ UNCHANGED <<constraints, policy, executor, pc, goal, place_trajectory_,
                 retreat_trajectory_, error_code, place_pose, result, ret, exception,
                 log, reply>>

NextConstraints == ConstraintsUnderstandable

SpecConstraints == InitConstraints /\ [][NextConstraints]_vars

\* ------------------------------------------- the lists of retreat() alone
InitRetreat ==
  /\ executor = "direct"
  /\ pc = "idle"
  /\ goal = NoGoal
  /\ place_trajectory_ = <<>>
  /\ retreat_trajectory_ = <<>>
  /\ error_code = NoError
  /\ place_pose = NoConfig
  /\ result = NoResult
  /\ ret = NoResult
  /\ exception = "none"
  /\ log = <<>>
  /\ reply = NoReply
  /\ constraints = NoGoal.path_constraints
  /\ understandable = <<>>
  /\ policy_goal \in PolicyGoals
  /\ translate_request = <<>>

\* retreat(), lines 109-145: the collision operations and the link padding it
\* hands to translateGripper
RetreatRequest ==
  /\ translate_request = <<>>
  /\ translate_request' =
       <<[collision_operations |-> RetreatCollisionOperations(policy_goal),
          link_padding |-> RetreatLinkPadding(policy_goal)]>>
  /\ UNCHANGED <<policy_goal, query, executor, pc, goal, place_trajectory_,
                 retreat_trajectory_, error_code, place_pose, result, ret, exception,
                 log, reply>>

NextRetreat == RetreatRequest

SpecRetreat == InitRetreat /\ [][NextRetreat]_vars

\* ------------------------------------------------------- reading the history
Calls == 1..Len(log)
LastCall == IF log = <<>> THEN "none" ELSE log[Len(log)].call
LastOk == log # <<>> /\ log[Len(log)].ok
Called(name) == \E i \in Calls : log[i].call = name
Succeeded(name) == \E i \in Calls : log[i].call = name /\ log[i].ok
SucceededBefore(name, i) == \E j \in Calls : j < i /\ log[j].call = name /\ log[j].ok

\* the capabilities that move the arm, the gripper or the attached object
MotionCalls == {"moveArmConstrained", "attemptMoveArmToGoal", "attemptTrajectory",
                "reactivePlace", "detachAndAddBackObjectsAttachedToGripper",
                "handPostureGraspAction", "translateGripper"}
NoMotion == \A i \in Calls : log[i].call \notin MotionCalls

\* the code a failed search is expected to give, by where the fault is put
\* and by the error code the search replied with
Classified(prefix, err) ==
  CASE prefix = "PLACE" /\ err = "COLLISION_CONSTRAINTS_VIOLATED" -> "PLACE_IN_COLLISION"
    [] prefix = "PLACE" /\ err = "JOINT_LIMITS_VIOLATED" -> "PLACE_OUT_OF_REACH"
    [] prefix = "PLACE" /\ err \notin {"COLLISION_CONSTRAINTS_VIOLATED", "JOINT_LIMITS_VIOLATED"}
         -> "PLACE_UNFEASIBLE"
    [] prefix = "PREPLACE" /\ err = "COLLISION_CONSTRAINTS_VIOLATED" -> "PREPLACE_IN_COLLISION"
    [] prefix = "PREPLACE" /\ err = "JOINT_LIMITS_VIOLATED" -> "PREPLACE_OUT_OF_REACH"
    [] prefix = "PREPLACE" /\ err \notin {"COLLISION_CONSTRAINTS_VIOLATED", "JOINT_LIMITS_VIOLATED"}
         -> "PREPLACE_UNFEASIBLE"

\* ------------------------------------------------------------------- claims

\* C1: with the feasibility-only flag unset, if the place search reached the
\* minimum approach distance, the first waypoint was found valid, the retreat
\* search reached the minimum retreat distance, a pre-place move (constrained
\* or unconstrained) succeeded, the approach succeeded and translateGripper
\* reached the minimum retreat distance, place() returns SUCCESS.
C1_AllSucceedGivesSuccess ==
  ( /\ ~goal.only_perform_feasibility_test
    /\ Succeeded("getInterpolatedIK_place")
    /\ Succeeded("checkStateValidity")
    /\ Succeeded("getInterpolatedIK_retreat")
    /\ Succeeded("moveArmConstrained") \/ Succeeded("attemptMoveArmToGoal")
    /\ Succeeded("attemptTrajectory") \/ Succeeded("reactivePlace")
    /\ LastCall = "translateGripper" /\ reply.dist >= goal.min_retreat_distance )
  => (pc = "returned" /\ ret.result_code = "SUCCESS")

C1_Witness ==
  /\ pc = "returned"
  /\ ret.result_code = "SUCCESS"
  /\ ~goal.only_perform_feasibility_test
  /\ Succeeded("getInterpolatedIK_place")
  /\ Succeeded("checkStateValidity")
  /\ Succeeded("getInterpolatedIK_retreat")
  /\ Called("moveArmConstrained") /\ Succeeded("attemptMoveArmToGoal")
  /\ Succeeded("reactivePlace")
  /\ LastCall = "translateGripper" /\ reply.dist >= goal.min_retreat_distance
  /\ goal.min_retreat_distance = MaxDist
  /\ place_trajectory_ # <<>>

\* C2: no motion capability is invoked in an attempt unless, earlier in that
\* attempt, the place search reached the minimum approach distance, then the
\* first waypoint passed the validity check, then the retreat search reached
\* the minimum retreat distance (prepare returned SUCCESS).
C2_FeasibilityGate ==
  \A i \in Calls :
    log[i].call \in MotionCalls =>
      \E a, b, c \in Calls :
        /\ a < b /\ b < c /\ c < i
        /\ log[a].call = "getInterpolatedIK_place" /\ log[a].ok
        /\ log[b].call = "checkStateValidity" /\ log[b].ok
        /\ log[c].call = "getInterpolatedIK_retreat" /\ log[c].ok

C2_Witness ==
  /\ Called("moveArmConstrained")
  /\ Called("attemptMoveArmToGoal")
  /\ Called("attemptTrajectory")
  /\ Called("translateGripper")
  /\ place_trajectory_ # <<>>

\* C3: with the feasibility-only flag set, place() returns the result of
\* prepare as it is, and no motion capability is called in the attempt.
C3_FeasibilityOnly ==
  goal.only_perform_feasibility_test =>
    /\ NoMotion
    /\ pc = "returned" => /\ ret = result
                          /\ LastCall \in {"getInterpolatedIK_place", "checkStateValidity",
                                           "getInterpolatedIK_retreat"}
                          /\ ret.result_code = "SUCCESS" <=>
                               (LastCall = "getInterpolatedIK_retreat" /\ LastOk)

C3_Witness ==
  /\ goal.only_perform_feasibility_test
  /\ pc = "returned"
  /\ ret = Result("SUCCESS", TRUE)
  /\ Succeeded("getInterpolatedIK_retreat")
  /\ place_trajectory_ # <<>>

\* C4: when the place search stops short of the minimum approach distance,
\* place() returns at once a flagged result: PLACE_* for an empty trajectory,
\* PREPLACE_* otherwise, with IN_COLLISION / OUT_OF_REACH / UNFEASIBLE by the
\* error code of that search.
C4_PlaceSearchClassification ==
  /\ \A i \in Calls :
       (log[i].call = "getInterpolatedIK_place" /\ ~log[i].ok) => i = Len(log)
  /\ (LastCall = "getInterpolatedIK_place" /\ reply.dist < goal.min_distance) =>
       /\ pc = "returned"
       /\ ret = Result(Classified(IF reply.len = 0 THEN "PLACE" ELSE "PREPLACE", reply.err),
                       TRUE)

C4_Witness ==
  /\ pc = "returned"
  /\ LastCall = "getInterpolatedIK_place"
  /\ reply = Reply("COLLISION_CONSTRAINTS_VIOLATED", 0, 0)
  /\ place_trajectory_ = <<>>
  /\ ret = Result("PLACE_IN_COLLISION", TRUE)

\* C5: place trajectory adequate and valid, retreat search short of the
\* minimum with an empty trajectory and a joint-limit code: the result is
\* PLACE_OUT_OF_REACH, flagged.  (Stated for a place trajectory that has a
\* first waypoint to validate.)
C5_EmptyRetreatJointLimits ==
  ( /\ place_trajectory_ # <<>>
    /\ Succeeded("getInterpolatedIK_place")
    /\ Succeeded("checkStateValidity")
    /\ LastCall = "getInterpolatedIK_retreat"
    /\ reply.len = 0
    /\ reply.dist < goal.min_retreat_distance
    /\ reply.err = "JOINT_LIMITS_VIOLATED" )
  => (pc = "returned" /\ ret = Result("PLACE_OUT_OF_REACH", TRUE))

\* C6: place trajectory adequate and valid, retreat search short of the
\* minimum with a non-empty trajectory and a collision code: the result is
\* RETREAT_IN_COLLISION, flagged.  (Stated for a place trajectory that has a
\* first waypoint to validate.)
C6_ShortRetreatCollision ==
  ( /\ place_trajectory_ # <<>>
    /\ Succeeded("getInterpolatedIK_place")
    /\ Succeeded("checkStateValidity")
    /\ LastCall = "getInterpolatedIK_retreat"
    /\ reply.len > 0
    /\ reply.dist < goal.min_retreat_distance
    /\ reply.err = "COLLISION_CONSTRAINTS_VIOLATED" )
  => (pc = "returned" /\ ret = Result("RETREAT_IN_COLLISION", TRUE))

\* C7: when the unconstrained pre-place move fails (after a failed
\* constrained move, or with constraints not usable), place() returns
\* MOVE_ARM_FAILED with the flag false, and approach, detach, release and
\* translateGripper are not invoked.  (Stated for a place trajectory that
\* has a first waypoint to move to.)
C7_MoveArmFailed ==
  ( /\ place_trajectory_ # <<>>
    /\ Called("attemptMoveArmToGoal")
    /\ ~Succeeded("attemptMoveArmToGoal") ) =>
    /\ pc = "returned"
    /\ ret = Result("MOVE_ARM_FAILED", FALSE)
    /\ LastCall = "attemptMoveArmToGoal"

\* C8: a failed constrained move is followed directly by attemptMoveArmToGoal
\* to the place trajectory's first waypoint, the configuration getFK was
\* given; when that move succeeds the attempt goes on to the approach and the
\* result is not MOVE_ARM_FAILED.
C8_Fallback ==
  \A i \in Calls :
    (log[i].call = "moveArmConstrained" /\ ~log[i].ok) =>
      /\ i = Len(log) => \/ pc = "attemptMoveArmToGoal"
                         \/ pc = "crashed" /\ place_trajectory_ = <<>>
      /\ i < Len(log) =>
           /\ log[i + 1].call = "attemptMoveArmToGoal"
           /\ place_trajectory_ # <<>> =>
                /\ log[i + 1].config = place_trajectory_[1]
                /\ log[i + 1].config = log[i].config
                /\ log[i - 1].call = "getFK" /\ log[i - 1].config = log[i + 1].config
           /\ log[i + 1].ok =>
                /\ i + 1 = Len(log) => pc = "placeApproach"
                /\ i + 1 < Len(log) => log[i + 2].call \in {"attemptTrajectory",
                                                            "computeGripperPose"}
                /\ pc = "returned" => ret.result_code # "MOVE_ARM_FAILED"

C8_Witness ==
  /\ \E i \in Calls : /\ log[i].call = "moveArmConstrained" /\ ~log[i].ok
                      /\ i + 2 <= Len(log)
                      /\ log[i + 1].call = "attemptMoveArmToGoal" /\ log[i + 1].ok
                      /\ log[i + 1].config = 1
                      /\ log[i + 2].call = "attemptTrajectory"
  /\ place_trajectory_ = Trajectory(MaxTrajLen)
  /\ pc = "returned"
  /\ ret.result_code = "SUCCESS"

\* C9: the direct placeApproach returns SUCCESS when attemptTrajectory reports
\* success, and PLACE_FAILED with the flag false when it reports failure.
\* (Stated for a non-empty prepared place trajectory; result is what
\* placeApproach returned to place() at line 410.)
C9_DirectApproach ==
  (place_trajectory_ # <<>> /\ LastCall = "attemptTrajectory") =>
    result = IF LastOk THEN Result("SUCCESS", TRUE) ELSE Result("PLACE_FAILED", FALSE)

\* C10: detach, gripper release and translateGripper are invoked only after
\* the place-trajectory execution (attemptTrajectory or the reactive place
\* action) reported success earlier in the attempt.  (Stated for a non-empty
\* prepared place trajectory.)
C10_RetreatOnlyAfterPlace ==
  \A i \in Calls :
    ( /\ place_trajectory_ # <<>>
      /\ log[i].call \in {"detachAndAddBackObjectsAttachedToGripper",
                          "handPostureGraspAction", "translateGripper"} ) =>
      (SucceededBefore("attemptTrajectory", i) \/ SucceededBefore("reactivePlace", i))

\* the calls of the release and retreat steps
ReleaseCalls == {"detachAndAddBackObjectsAttachedToGripper", "handPostureGraspAction",
                 "translateGripper"}

\* C11: when the reactive place action times out, or delivers a value other
\* than SUCCESS, placeApproach returns PLACE_FAILED with the flag false and so
\* does place(), without detach, release or translateGripper.
C11_ReactiveFailure ==
  \A i \in Calls :
    (log[i].call = "reactivePlace" /\ ~log[i].ok) =>
      /\ i = Len(log)
      /\ reply.err # "SUCCESS"
      /\ result = Result("PLACE_FAILED", FALSE)
      /\ pc = "returned"
      /\ ret = Result("PLACE_FAILED", FALSE)
      /\ \A j \in Calls : log[j].call \notin ReleaseCalls

C11_Witness ==
  /\ executor = "reactive"
  /\ LastCall = "reactivePlace"
  /\ reply.err = "timeout"
  /\ pc = "returned"
  /\ ret = Result("PLACE_FAILED", FALSE)
  /\ place_trajectory_ # <<>>

\* C12: translateGripper follows the release; place() returns RETREAT_FAILED
\* with the flag false exactly when the distance translateGripper achieved is
\* below the goal's minimum retreat distance, and SUCCESS otherwise.
C12_RetreatOutcome ==
  /\ LastCall = "translateGripper" =>
       /\ pc = "returned"
       /\ Len(log) > 1
       /\ log[Len(log) - 1].call = "handPostureGraspAction"
       /\ reply.dist < goal.min_retreat_distance => ret = Result("RETREAT_FAILED", FALSE)
       /\ reply.dist >= goal.min_retreat_distance => ret.result_code = "SUCCESS"
  /\ (pc = "returned" /\ ret.result_code = "RETREAT_FAILED") =>
       /\ LastCall = "translateGripper"
       /\ reply.dist < goal.min_retreat_distance
       /\ ~ret.locationSpecific

C12_Witness ==
  /\ LastCall = "translateGripper"
  /\ reply.dist < goal.min_retreat_distance
  /\ ret = Result("RETREAT_FAILED", FALSE)
  /\ place_trajectory_ # <<>>

\* the calls whose failure is fatal
FatalCalls == {"computeGripperPose", "getFK"}

\* C13: a missing transform or a throwing pose transform (in the preparation
\* or in the reactive approach) and a failed forward kinematics call raise an
\* error out of place(): no result is returned and no further call is made in
\* the attempt; nothing else raises.
C13_FatalErrors ==
  /\ \A i \in Calls :
       (log[i].call \in FatalCalls /\ ~log[i].ok) =>
         /\ i = Len(log)
         /\ pc = "threw"
         /\ ret = NoResult
         /\ exception = (IF log[i].call = "getFK" THEN "fk_failed" ELSE exception)
         /\ exception \in {"no_transform", "transform_exception", "fk_failed"}
  /\ pc = "threw" => (LastCall \in FatalCalls /\ ~LastOk)
  /\ pc # "threw" => exception = "none"

C13_Witness ==
  /\ pc = "threw"
  /\ exception = "fk_failed"
  /\ LastCall = "getFK"
  /\ ret = NoResult
  /\ place_trajectory_ # <<>>

\* the calls that are handed the stored place trajectory or a point of it
PlaceTrajectoryReaders == {"checkStateValidity", "getInterpolatedIK_retreat", "getFK",
                           "moveArmConstrained", "attemptMoveArmToGoal",
                           "attemptTrajectory", "reactivePlace"}

AttemptOver == pc \in {"returned", "threw"}

\* C14 as stated: when an attempt is over, each stored trajectory is either
\* empty or was written by this attempt's own search, never a value an
\* earlier attempt left behind.
C14_NoCarryOver ==
  AttemptOver =>
    /\ place_trajectory_ = <<>> \/ Called("getInterpolatedIK_place")
    /\ retreat_trajectory_ = <<>> \/ Called("getInterpolatedIK_retreat")

\* C14 amended: each search overwrites its stored trajectory with what it
\* found, and every call that is handed the place trajectory comes after this
\* attempt's own backward search (a trajectory whose search the attempt does
\* not reach keeps the value of the earlier attempt, unread).
C14_OverwrittenBeforeRead ==
  /\ LastCall = "getInterpolatedIK_place" => place_trajectory_ = Trajectory(reply.len)
  /\ LastCall = "getInterpolatedIK_retreat" => retreat_trajectory_ = Trajectory(reply.len)
  /\ \A i \in Calls :
       log[i].call \in PlaceTrajectoryReaders =>
         SucceededBefore("getInterpolatedIK_place", i)
  /\ \A i \in Calls :
       /\ log[i].call \in {"checkStateValidity", "getFK"} =>
            log[i].config \in Front(place_trajectory_)
       /\ log[i].call = "getInterpolatedIK_retreat" =>
            log[i].config \in Back(place_trajectory_)

\* an attempt that failed in the backward search, with the retreat trajectory
\* of an earlier attempt still stored
C14_Witness ==
  /\ pc = "returned"
  /\ LastCall = "getInterpolatedIK_place"
  /\ place_trajectory_ = Trajectory(reply.len)
  /\ place_trajectory_ # <<>>
  /\ retreat_trajectory_ # <<>>

\* how often the attempt has made the call
Times(name) == Cardinality({i \in Calls : log[i].call = name})

ApproachCalls == {"attemptTrajectory", "reactivePlace"}

\* C15: in one attempt each of the two searches, the validity check,
\* moveArmConstrained, attemptMoveArmToGoal, the approach execution, detach,
\* the release and translateGripper is called at most once, so an attempt
\* makes at most twelve calls (the gripper pose is computed a second time by
\* the reactive approach); the unconstrained move comes after the constrained
\* one only when that one failed.
C15_NoRetry ==
  /\ \A name \in {"getInterpolatedIK_place", "checkStateValidity",
                  "getInterpolatedIK_retreat", "getFK", "moveArmConstrained",
                  "attemptMoveArmToGoal"} \cup ReleaseCalls : Times(name) <= 1
  /\ Times("attemptTrajectory") + Times("reactivePlace") <= 1
  /\ Len(log) <= 12
  /\ \A i \in Calls :
       (log[i].call = "attemptMoveArmToGoal" /\ Called("moveArmConstrained")) =>
         /\ i > 1
         /\ log[i - 1].call = "moveArmConstrained"
         /\ ~log[i - 1].ok

\* the longest attempt: both pre-place moves, the reactive approach, the
\* release and the retreat
C15_Witness ==
  /\ pc = "returned"
  /\ Len(log) = 12
  /\ Called("moveArmConstrained")
  /\ Called("attemptMoveArmToGoal")
  /\ LastCall = "translateGripper"

\* the number of constraints of all four kinds
Total(c) == c.position + c.orientation + c.joint + c.visibility

\* C16: constraintsUnderstandable returns true for a set with no constraint
\* at all and for a set that is exactly one orientation constraint, and false
\* for every other combination.
C16_Understandable ==
  understandable # <<>> =>
    understandable[1] = (Total(constraints) = 0
                         \/ (constraints.orientation = 1 /\ Total(constraints) = 1))

\* two orientation constraints and nothing else: not understandable
C16_Witness ==
  /\ understandable = <<FALSE>>
  /\ constraints.orientation = 2
  /\ Total(constraints) = 2

ExactlyOneOrientation(c) == c.orientation = 1 /\ Total(c) = 1

\* place() has stopped in a read of front() of an empty place trajectory
CrashedOnEmpty == pc = "crashed" /\ place_trajectory_ = <<>>

\* C17: after a successful preparation that is not a feasibility test, the
\* next call is getFK (then moveArmConstrained) exactly when the path
\* constraints are one orientation constraint and nothing else; for every other
\* set the next call is attemptMoveArmToGoal and getFK is never called.
C17_ConstrainedMotion ==
  /\ \A i \in Calls :
       (/\ log[i].call = "getInterpolatedIK_retreat"
        /\ log[i].ok
        /\ ~goal.only_perform_feasibility_test) =>
         IF ExactlyOneOrientation(goal.path_constraints)
         THEN /\ i = Len(log) => (pc = "getFK" \/ CrashedOnEmpty)
              /\ i < Len(log) => log[i + 1].call = "getFK"
         ELSE /\ i = Len(log) => (pc = "attemptMoveArmToGoal" \/ CrashedOnEmpty)
              /\ i < Len(log) => log[i + 1].call = "attemptMoveArmToGoal"
              /\ ~Called("getFK")
              /\ ~Called("moveArmConstrained")
  /\ \A i \in Calls :
       log[i].call = "moveArmConstrained" =>
         /\ i > 1
         /\ log[i - 1].call = "getFK"
         /\ log[i - 1].ok
  /\ Called("getFK") => ExactlyOneOrientation(goal.path_constraints)

\* a goal with no path constraints goes straight to the unconstrained move
C17_Witness ==
  /\ Total(goal.path_constraints) = 0
  /\ Called("attemptMoveArmToGoal")
  /\ ~Called("getFK")
  /\ place_trajectory_ # <<>>

\* the result code for a short retreat search, by whether the retreat
\* trajectory is empty and by an error code
ShortRetreatCode(empty, err) ==
  CASE empty /\ err = "COLLISION_CONSTRAINTS_VIOLATED" -> "PLACE_IN_COLLISION"
    [] empty /\ err = "JOINT_LIMITS_VIOLATED" -> "PLACE_OUT_OF_REACH"
    [] empty /\ err \notin {"COLLISION_CONSTRAINTS_VIOLATED", "JOINT_LIMITS_VIOLATED"}
         -> "PLACE_UNFEASIBLE"
    [] ~empty /\ err = "COLLISION_CONSTRAINTS_VIOLATED" -> "RETREAT_IN_COLLISION"
    [] ~empty /\ err = "JOINT_LIMITS_VIOLATED" -> "RETREAT_OUT_OF_REACH"
    [] ~empty /\ err \notin {"COLLISION_CONSTRAINTS_VIOLATED", "JOINT_LIMITS_VIOLATED"}
         -> "RETREAT_UNFEASIBLE"

\* C18: error_code holds the backward search's code from that search's reply
\* until the forward search is called; when the forward search falls short of
\* the minimum retreat distance, place() returns a location-specific result
\* whose prefix is PLACE_ for an empty retreat trajectory and RETREAT_
\* otherwise and whose suffix is decided by that stored code alone, whatever
\* code the forward search itself returned.
C18_PlacePhaseCode ==
  /\ [](pc = "checkStateValidity" => (LastCall = "getInterpolatedIK_place"
                                      /\ error_code = reply.err))
  /\ [][(pc = "checkStateValidity" /\ pc' = "getInterpolatedIK_retreat") =>
          error_code' = error_code]_vars
  /\ [][(/\ pc = "getInterpolatedIK_retreat"
         /\ pc' # "crashed"
         /\ reply'.dist < goal.min_retreat_distance) =>
          /\ pc' = "returned"
          /\ ret' = Result(ShortRetreatCode(reply'.len = 0, error_code), TRUE)]_vars

\* the backward search ended on a joint limit, the short forward search on a
\* collision: the result says out of reach
C18_Witness ==
  /\ pc = "returned"
  /\ LastCall = "getInterpolatedIK_retreat"
  /\ reply.dist < goal.min_retreat_distance
  /\ reply.err = "COLLISION_CONSTRAINTS_VIOLATED"
  /\ reply.len > 0
  /\ ret = Result("RETREAT_OUT_OF_REACH", TRUE)
  /\ Len(place_trajectory_) > 0

\* C19: the preparation stops at its first failing stage. After a backward
\* search below the minimum approach distance neither the validity check nor
\* the forward search is called; after an adequate backward search and an
\* invalid first waypoint place() returns PREPLACE_UNFEASIBLE with the flag
\* true and the forward search is not called.
C19_FirstFailureStops ==
  \A i \in Calls :
    /\ (log[i].call = "getInterpolatedIK_place" /\ ~log[i].ok) =>
         /\ i = Len(log)
         /\ pc = "returned"
         /\ ~Called("checkStateValidity")
         /\ ~Called("getInterpolatedIK_retreat")
    /\ (log[i].call = "checkStateValidity" /\ ~log[i].ok) =>
         /\ i = Len(log)
         /\ i > 1
         /\ log[i - 1].call = "getInterpolatedIK_place"
         /\ log[i - 1].ok
         /\ pc = "returned"
         /\ ret = Result("PREPLACE_UNFEASIBLE", TRUE)
         /\ ~Called("getInterpolatedIK_retreat")

C19_Witness ==
  /\ LastCall = "checkStateValidity"
  /\ ~LastOk
  /\ ret = Result("PREPLACE_UNFEASIBLE", TRUE)
  /\ place_trajectory_ # <<>>
  /\ ~goal.only_perform_feasibility_test

ReleaseSequence == <<"detachAndAddBackObjectsAttachedToGripper", "handPostureGraspAction",
                     "translateGripper">>

\* placeApproach returned SUCCESS for the approach made as call i: the direct
\* strategy always does, the reactive one when the action succeeded
ApproachSucceeded(i) ==
  /\ log[i].call \in ApproachCalls
  /\ log[i].call = "attemptTrajectory" \/ log[i].ok

\* C20: when the approach returns anything but SUCCESS, place() returns
\* PLACE_FAILED with the flag false and calls nothing more; when it returns
\* SUCCESS the calls that follow are detach, the release and translateGripper,
\* once each and in this order, and place() does not return between them.
C20_ReleaseOrdering ==
  /\ \A i \in Calls :
       (log[i].call \in ApproachCalls /\ ~ApproachSucceeded(i)) =>
         /\ i = Len(log)
         /\ result.result_code # "SUCCESS"
         /\ pc = "returned"
         /\ ret = Result("PLACE_FAILED", FALSE)
  /\ \A i \in Calls :
       ApproachSucceeded(i) =>
         LET rest == Len(log) - i
         IN  /\ rest <= Len(ReleaseSequence)
             /\ \A k \in 1..rest : log[i + k].call = ReleaseSequence[k]
             /\ IF rest < Len(ReleaseSequence)
                THEN pc = ReleaseSequence[rest + 1]
                ELSE pc = "returned" /\ ret.result_code \in {"SUCCESS", "RETREAT_FAILED"}
  /\ \A j \in Calls :
       log[j].call \in ReleaseCalls => \E i \in Calls : i < j /\ ApproachSucceeded(i)

\* the reactive approach succeeded and the release sequence ran to its end
C20_Witness ==
  /\ executor = "reactive"
  /\ pc = "returned"
  /\ \E i \in Calls :
       /\ log[i].call = "reactivePlace"
       /\ log[i].ok
       /\ Len(log) = i + 3
       /\ log[i + 1].call = "detachAndAddBackObjectsAttachedToGripper"
       /\ log[i + 2].call = "handPostureGraspAction"
       /\ log[i + 3].call = "translateGripper"
  /\ place_trajectory_ # <<>>

\* how many operations retreat() puts before the caller's: one for a named
\* object, one for a named support surface
BuiltIn(g) ==
  (IF g.collision_object_name # "" THEN 1 ELSE 0)
  + (IF g.collision_support_surface_name # "" THEN 1 ELSE 0)

\* C21: the collision operations retreat() hands to translateGripper are the
\* gripper-object disable (present exactly when the object is named), then the
\* gripper-surface disable (present exactly when the surface is named), then
\* the caller's operations in their order; the link padding is a zero padding
\* for each gripper link, then the caller's paddings in their order.
C21_RetreatPolicy ==
  translate_request # <<>> =>
    LET g == policy_goal
        ord == translate_request[1].collision_operations
        pad == translate_request[1].link_padding
        first == IF g.collision_object_name # "" THEN 1 ELSE 0
        extra == g.additional_collision_operations
        more == g.additional_link_padding
    IN  /\ Len(ord) = BuiltIn(g) + Len(extra)
        /\ g.collision_object_name # "" =>
             ord[1] = [object1 |-> "gripper", object2 |-> g.collision_object_name,
                       operation |-> "DISABLE"]
        /\ g.collision_support_surface_name # "" =>
             ord[first + 1] = [object1 |-> "gripper",
                               object2 |-> g.collision_support_surface_name,
                               operation |-> "DISABLE"]
        /\ \A k \in 1..Len(extra) : ord[BuiltIn(g) + k] = extra[k]
        /\ Len(pad) = Len(GripperLinks) + Len(more)
        /\ \A k \in 1..Len(GripperLinks) :
             pad[k] = [link_name |-> GripperLinks[k], padding |-> 0]
        /\ \A k \in 1..Len(more) : pad[Len(GripperLinks) + k] = more[k]

\* both names given and the caller re-enables the gripper-object pair: the
\* caller's operation is the last in the list
C21_Witness ==
  /\ translate_request # <<>>
  /\ policy_goal.collision_object_name = "object"
  /\ policy_goal.collision_support_surface_name = "table"
  /\ Len(policy_goal.additional_collision_operations) = 2
  /\ policy_goal.additional_collision_operations[1]
       # policy_goal.additional_collision_operations[2]
  /\ Len(translate_request[1].collision_operations) = 4
  /\ translate_request[1].collision_operations[4]
       = policy_goal.additional_collision_operations[2]
  /\ policy_goal.additional_link_padding # <<>>

\* the steps that read front() or back() of the stored place trajectory
WaypointReads == {"checkStateValidity", "getInterpolatedIK_retreat", "getFK",
                  "moveArmConstrained", "attemptMoveArmToGoal"}

\* C22: whenever the preparation or place() is about to read the first or the
\* last waypoint of the place trajectory, the trajectory is not empty, and no
\* attempt has ended in such a read of an empty trajectory.
C22_NonEmptyWhenRead ==
  /\ pc \in WaypointReads => place_trajectory_ # <<>>
  /\ pc # "crashed"

\* the result codes that classify a place location as unusable
ClassificationCodes ==
  {"PLACE_IN_COLLISION", "PLACE_OUT_OF_REACH", "PLACE_UNFEASIBLE",
   "PREPLACE_IN_COLLISION", "PREPLACE_OUT_OF_REACH", "PREPLACE_UNFEASIBLE",
   "RETREAT_IN_COLLISION", "RETREAT_OUT_OF_REACH", "RETREAT_UNFEASIBLE"}

\* C23: when the goal is not a feasibility test, place() returns SUCCESS only
\* if in this attempt the preparation succeeded, a pre-place move reported
\* success, the execution of the place trajectory reported success, the
\* object was detached, the gripper released and translateGripper reached the
\* minimum retreat distance; and a result that classifies the location is
\* returned with no motion call made.
C23_SuccessNeedsEveryStage ==
  /\ (/\ pc = "returned"
      /\ ~goal.only_perform_feasibility_test
      /\ ret.result_code = "SUCCESS"
      /\ place_trajectory_ # <<>>) =>
       /\ Succeeded("getInterpolatedIK_retreat")
       /\ Succeeded("moveArmConstrained") \/ Succeeded("attemptMoveArmToGoal")
       /\ Succeeded("attemptTrajectory") \/ Succeeded("reactivePlace")
       /\ Called("detachAndAddBackObjectsAttachedToGripper")
       /\ Called("handPostureGraspAction")
       /\ Succeeded("translateGripper")
  /\ (pc = "returned" /\ ret.result_code \in ClassificationCodes) => NoMotion

====
